---------------------------- MODULE Spec2Model ----------------------------
(***************************************************************************)
(* Mock Druid server (mock-druid.py): MockDruidHandler served by a         *)
(* single-threaded HTTPServer.                                             *)
(*                                                                         *)
(* Text is modelled as it is in Python: a str / bytes value is a sequence  *)
(* of one-character strings, so ==, startswith, split, int() and           *)
(* json.dumps are computed character by character.  json.dumps escapes to  *)
(* ASCII, so the trailing .encode() changes no character and the body      *)
(* written to wfile is the character sequence Dumps returns.               *)
(***************************************************************************)
EXTENDS Integers, Sequences, FiniteSets, TLC

VARIABLES conn, backlog, cur, pc, content_length

vars == <<conn, backlog, cur, pc, content_length>>

-----------------------------------------------------------------------------
(* Bounds of the explored inputs.                                          *)

\* Path tokens a GET request appends (each behind a "/") to a path head.
MaxTokens == 3
\* Bytes of request body a client holds; a client declares up to one more.
MaxBody == 2

-----------------------------------------------------------------------------
(* Python str operations.                                                  *)

\* s.startswith(p)
StartsWith(s, p) ==
  Len(s) >= Len(p) /\ SubSeq(s, 1, Len(p)) = p

\* Position of the first sep in s at or after i, 0 when there is none.
RECURSIVE Find(_, _, _)
Find(s, sep, i) ==
  IF i > Len(s) THEN 0
  ELSE IF s[i] = sep THEN i
  ELSE Find(s, sep, i + 1)

\* The positions of sep in s.
SepPositions(s, sep) == {i \in 1..Len(s) : s[i] = sep}

\* s.split(sep) for a one-character sep: one token more than s holds seps,
\* the j-th token lying between the (j-1)-th and the j-th sep.
Split(s, sep) ==
  LET P == SepPositions(s, sep)
      n == Cardinality(P)
      Nth(j) == IF j = 0 THEN 0
                ELSE IF j = n + 1 THEN Len(s) + 1
                ELSE CHOOSE p \in P : Cardinality({q \in P : q <= p}) = j
  IN [j \in 1..(n + 1) |-> SubSeq(s, Nth(j - 1) + 1, Nth(j) - 1)]

\* seq[-k]
PyIndex(seq, k) == seq[Len(seq) - k + 1]

\* sep.join(parts)
RECURSIVE JoinFrom(_, _, _)
JoinFrom(parts, sep, i) ==
  IF i > Len(parts) THEN << >>
  ELSE IF i = Len(parts) THEN parts[i]
  ELSE parts[i] \o sep \o JoinFrom(parts, sep, i + 1)

Join(parts, sep) == JoinFrom(parts, sep, 1)

Digits == <<"0", "1", "2", "3", "4", "5", "6", "7", "8", "9">>

DigitValue(ch) == (CHOOSE d \in 1..10 : Digits[d] = ch) - 1

IsDigit(ch) == \E d \in 1..10 : Digits[d] = ch

\* str(n) for n >= 0
RECURSIVE IntToChars(_)
IntToChars(n) ==
  IF n < 10 THEN <<Digits[n + 1]>>
  ELSE IntToChars(n \div 10) \o <<Digits[(n % 10) + 1]>>

\* The value of the numeral s[1..n].
RECURSIVE DigitsValue(_, _)
DigitsValue(s, n) ==
  IF n = 0 THEN 0 ELSE 10 * DigitsValue(s, n - 1) + DigitValue(s[n])

AllDigits(s) == s # << >> /\ \A i \in 1..Len(s) : IsDigit(s[i])

\* The header is absent: self.headers['Content-Length'] is None.
None == <<"None">>

\* int(h): h is None raises TypeError, a non-numeral raises ValueError.
ParseInt(h) ==
  IF h = None THEN [exc |-> "TypeError", val |-> 0]
  ELSE IF AllDigits(h) THEN [exc |-> "", val |-> DigitsValue(h, Len(h))]
  ELSE IF Len(h) > 1 /\ h[1] = "-" /\ AllDigits(Tail(h))
    THEN [exc |-> "", val |-> 0 - DigitsValue(Tail(h), Len(h) - 1)]
  ELSE IF Len(h) > 1 /\ h[1] = "+" /\ AllDigits(Tail(h))
    THEN [exc |-> "", val |-> DigitsValue(Tail(h), Len(h) - 1)]
  ELSE [exc |-> "ValueError", val |-> 0]

-----------------------------------------------------------------------------
(* json.dumps.  A JSON value is tagged with its Python type; a dict is the *)
(* sequence of its <<key, value>> items in insertion order.                *)

JStr(s) == [t |-> "str", v |-> s]
JInt(n) == [t |-> "int", v |-> n]
JBool(b) == [t |-> "bool", v |-> b]
JArr(items) == [t |-> "list", v |-> items]
JObj(items) == [t |-> "dict", v |-> items]

\* The JSON string escapes of the characters a request path can hold.
EscapeChar(ch) ==
  IF ch = "\"" THEN <<"\\", "\"">>
  ELSE IF ch = "\\" THEN <<"\\", "\\">>
  ELSE <<ch>>

Escape(s) == Join([i \in 1..Len(s) |-> EscapeChar(s[i])], << >>)

Quote(s) == <<"\"">> \o Escape(s) \o <<"\"">>

\* json.dumps(v) with the default separators ", " and ": ".
RECURSIVE Dumps(_)
Dumps(v) ==
  CASE v.t = "str" -> Quote(v.v)
    [] v.t = "int" -> IntToChars(v.v)
    [] v.t = "bool" -> IF v.v THEN <<"t", "r", "u", "e">> ELSE <<"f", "a", "l", "s", "e">>
    [] v.t = "list" ->
         <<"[">> \o Join([i \in 1..Len(v.v) |-> Dumps(v.v[i])], <<",", " ">>) \o <<"]">>
    [] v.t = "dict" ->
         <<"{">>
         \o Join([i \in 1..Len(v.v) |->
                    Quote(v.v[i][1]) \o <<":", " ">> \o Dumps(v.v[i][2])], <<",", " ">>)
         \o <<"}">>

-----------------------------------------------------------------------------
(* The routes and the canned documents.                                    *)

StatusPath == <<"/", "s", "t", "a", "t", "u", "s">>
DatasourcesPath == <<"/", "d", "r", "u", "i", "d", "/", "v", "2", "/", "d", "a", "t", "a", "s", "o", "u",
     "r", "c", "e", "s">>
CoordinatorPrefix == <<"/", "d", "r", "u", "i", "d", "/", "c", "o", "o", "r", "d", "i", "n", "a", "t", "o",
     "r", "/", "v", "1", "/", "d", "a", "t", "a", "s", "o", "u", "r", "c", "e", "s", "/">>
SqlPath == <<"/", "d", "r", "u", "i", "d", "/", "v", "2", "/", "s", "q", "l">>
SegmentsToken == <<"s", "e", "g", "m", "e", "n", "t", "s">>
Slash == "/"

Interval == <<"2", "0", "2", "3", "-", "0", "1", "-", "0", "1", "T", "0", "0", ":", "0", "0", ":",
     "0", "0", ".", "0", "0", "0", "Z", "/", "2", "0", "2", "3", "-", "0", "1", "-", "0",
     "2", "T", "0", "0", ":", "0", "0", ":", "0", "0", ".", "0", "0", "0", "Z">>
Version == <<"2", "0", "2", "3", "-", "0", "1", "-", "0", "1", "T", "0", "0", ":", "0", "0", ":",
     "0", "0", ".", "0", "0", "0", "Z">>
SegmentSize == 1000000

StatusDoc ==
  JObj(<< <<<<"s", "t", "a", "t", "u", "s">>, JStr(<<"h", "e", "a", "l", "t", "h", "y">>)>>,
          <<<<"v", "e", "r", "s", "i", "o", "n">>, JStr(<<"2", "8", ".", "0", ".", "1", "-", "m", "o", "c", "k">>)>> >>)

DatasourceList ==
  JArr(<<JStr(<<"w", "i", "k", "i", "p", "e", "d", "i", "a">>), JStr(<<"k", "o", "a", "l", "a", "s">>), JStr(<<"f", "l", "i", "g", "h", "t", "s">>)>>)

SegmentList(datasource) ==
  JArr(<< JObj(<< <<<<"d", "a", "t", "a", "S", "o", "u", "r", "c", "e">>, JStr(datasource)>>,
                  <<<<"i", "n", "t", "e", "r", "v", "a", "l">>, JStr(Interval)>>,
                  <<<<"v", "e", "r", "s", "i", "o", "n">>, JStr(Version)>>,
                  <<<<"p", "a", "r", "t", "i", "t", "i", "o", "n">>, JInt(0)>>,
                  <<<<"s", "i", "z", "e">>, JInt(SegmentSize)>> >>) >>)

Column(name, type) ==
  JObj(<< <<<<"n", "a", "m", "e">>, JStr(name)>>, <<<<"t", "y", "p", "e">>, JStr(type)>> >>)

Columns ==
  JArr(<<Column(<<"t", "i", "m", "e", "s", "t", "a", "m", "p">>, <<"L", "O", "N", "G">>),
         Column(<<"c", "o", "u", "n", "t">>, <<"L", "O", "N", "G">>),
         Column(<<"d", "i", "m", "e", "n", "s", "i", "o", "n">>, <<"S", "T", "R", "I", "N", "G">>)>>)

MetadataDoc(datasource) ==
  JObj(<< <<<<"n", "a", "m", "e">>, JStr(datasource)>>,
          <<<<"s", "e", "g", "m", "e", "n", "t", "s">>, JObj(<< <<<<"i", "n", "t", "e", "r", "v", "a", "l", "s">>, JArr(<<JStr(Interval)>>)>> >>)>>,
          <<<<"c", "o", "l", "u", "m", "n", "s">>, Columns>>,
          <<<<"q", "u", "e", "r", "y", "G", "r", "a", "n", "u", "l", "a", "r", "i", "t", "y">>, JStr(<<"n", "o", "n", "e">>)>>,
          <<<<"s", "e", "g", "m", "e", "n", "t", "G", "r", "a", "n", "u", "l", "a", "r", "i", "t",
     "y">>, JStr(<<"d", "a", "y">>)>>,
          <<<<"r", "o", "l", "l", "u", "p">>, JBool(FALSE)>> >>)

\* Variant: the result carries the length of the submitted body.
SqlResultEcho(post_data) ==
  JArr(<<JArr(<<JStr(<<"t", "e", "s", "t">>)>>), JArr(<<JInt(Len(post_data))>>)>>)

\* The mock SQL response; post_data is read and not used.
SqlResult(post_data) ==
  JArr(<<JArr(<<JStr(<<"t", "e", "s", "t">>)>>), JArr(<<JInt(1)>>)>>)

-----------------------------------------------------------------------------
(* Responses: the status of send_response, the headers of send_header in   *)
(* the order sent, and the bytes written to wfile.  The Server and Date    *)
(* headers send_response adds itself are left out.                         *)

Response(status, headers, body) ==
  [status |-> status, headers |-> headers, body |-> body]

\* send_response(200); send_header('Content-type', ...); json.dumps(response)
JsonResponse(response) ==
  Response(200, << <<"Content-type", <<"a", "p", "p", "l", "i", "c", "a", "t", "i", "o", "n", "/", "j", "s", "o", "n">>>> >>, Dumps(response))

\* send_response(404); end_headers()
NotFound == Response(404, << >>, << >>)

\* Variant: the final token is cut at its first "?".
DatasourceNoQuery(tokens) ==
  LET last == PyIndex(tokens, 1)
      k == Find(last, "?", 1)
  IN IF k = 0 THEN last ELSE SubSeq(last, 1, k - 1)

\* datasource = self.path.split('/')[-1]
Datasource(tokens) == PyIndex(tokens, 1)

\* Variant: segments anywhere among the tokens selects the listing.
IsSegmentsAnyToken(tokens) ==
  \E i \in 1..Len(tokens) : tokens[i] = SegmentsToken

\* if datasource == 'segments'
IsSegments(tokens) == Datasource(tokens) = SegmentsToken

\* Variant: the listing echoes the final token.
SegmentsDatasourceLast(tokens) == PyIndex(tokens, 1)

\* datasource = self.path.split('/')[-2]
SegmentsDatasource(tokens) == PyIndex(tokens, 2)

\* Variant: /status is matched as a prefix.
RouteGETPrefix(path) ==
  IF StartsWith(path, StatusPath) THEN "status"
  ELSE IF path = DatasourcesPath THEN "datasources"
  ELSE IF StartsWith(path, CoordinatorPrefix) THEN "coordinator"
  ELSE "none"

\* The if / elif chain of do_GET: the first branch whose test holds.
RouteGET(path) ==
  IF path = StatusPath THEN "status"
  ELSE IF path = DatasourcesPath THEN "datasources"
  ELSE IF StartsWith(path, CoordinatorPrefix) THEN "coordinator"
  ELSE "none"

do_GET(path) ==
  LET route == RouteGET(path)
      tokens == Split(path, Slash)
  IN CASE route = "status" -> JsonResponse(StatusDoc)
       [] route = "datasources" -> JsonResponse(DatasourceList)
       [] route = "coordinator" ->
            IF IsSegments(tokens)
              THEN JsonResponse(SegmentList(SegmentsDatasource(tokens)))
              ELSE JsonResponse(MetadataDoc(Datasource(tokens)))
       [] OTHER -> NotFound

\* if self.path == '/druid/v2/sql' in do_POST
RoutePOST(path) == path = SqlPath

\* rfile.read(n) returns: n bytes have arrived, or the peer has shut down
\* its sending side; read(-1) returns at end of stream only.
ReadReturns(n, sent, eof) == eof \/ (n >= 0 /\ sent >= n)

\* The bytes rfile.read(n) returns of the body bytes that arrived.
ReadBytes(n, arrived) ==
  IF n < 0 \/ n >= Len(arrived) THEN arrived ELSE SubSeq(arrived, 1, n)

-----------------------------------------------------------------------------
(* BaseHTTPRequestHandler: the method dispatch of handle_one_request and   *)
(* send_error.                                                             *)

GET == <<"G", "E", "T">>
POST == <<"P", "O", "S", "T">>
DELETE == <<"D", "E", "L", "E", "T", "E">>
PUT == <<"P", "U", "T">>
HEAD == <<"H", "E", "A", "D">>

\* hasattr(self, 'do_' + command): the class defines do_GET and do_POST.
HasHandler(command) == command \in {GET, POST}

\* repr() of a str holding no quote or backslash.
Repr(s) == <<"'">> \o s \o <<"'">>

HtmlEscapeChar(ch) ==
  IF ch = "&" THEN <<"&", "a", "m", "p", ";">>
  ELSE IF ch = "<" THEN <<"&", "l", "t", ";">>
  ELSE IF ch = ">" THEN <<"&", "g", "t", ";">>
  ELSE <<ch>>

\* html.escape(s, quote=False)
HtmlEscape(s) == Join([i \in 1..Len(s) |-> HtmlEscapeChar(s[i])], << >>)

NOT_IMPLEMENTED == 501

NotImplementedExplain == <<"S", "e", "r", "v", "e", "r", " ", "d", "o", "e", "s", " ", "n", "o", "t", " ", "s",
     "u", "p", "p", "o", "r", "t", " ", "t", "h", "i", "s", " ", "o", "p", "e", "r", "a",
     "t", "i", "o", "n">>

\* DEFAULT_ERROR_MESSAGE % {code, message, explain}
ErrorPage(code, message, explain) ==
  <<"<", "!", "D", "O", "C", "T", "Y", "P", "E", " ", "H", "T", "M", "L", ">", "\n", "<",
     "h", "t", "m", "l", " ", "l", "a", "n", "g", "=", "\"", "e", "n", "\"", ">", "\n", " ",
     " ", " ", " ", "<", "h", "e", "a", "d", ">", "\n", " ", " ", " ", " ", " ", " ", " ",
     " ", "<", "m", "e", "t", "a", " ", "c", "h", "a", "r", "s", "e", "t", "=", "\"", "u",
     "t", "f", "-", "8", "\"", ">", "\n", " ", " ", " ", " ", " ", " ", " ", " ", "<", "t",
     "i", "t", "l", "e", ">", "E", "r", "r", "o", "r", " ", "r", "e", "s", "p", "o", "n",
     "s", "e", "<", "/", "t", "i", "t", "l", "e", ">", "\n", " ", " ", " ", " ", "<", "/",
     "h", "e", "a", "d", ">", "\n", " ", " ", " ", " ", "<", "b", "o", "d", "y", ">", "\n",
     " ", " ", " ", " ", " ", " ", " ", " ", "<", "h", "1", ">", "E", "r", "r", "o", "r",
     " ", "r", "e", "s", "p", "o", "n", "s", "e", "<", "/", "h", "1", ">", "\n", " ", " ",
     " ", " ", " ", " ", " ", " ", "<", "p", ">", "E", "r", "r", "o", "r", " ", "c", "o",
     "d", "e", ":", " ">>
  \o IntToChars(code)
  \o <<"<", "/", "p", ">", "\n", " ", " ", " ", " ", " ", " ", " ", " ", "<", "p", ">", "M",
     "e", "s", "s", "a", "g", "e", ":", " ">>
  \o HtmlEscape(message)
  \o <<".", "<", "/", "p", ">", "\n", " ", " ", " ", " ", " ", " ", " ", " ", "<", "p", ">",
     "E", "r", "r", "o", "r", " ", "c", "o", "d", "e", " ", "e", "x", "p", "l", "a", "n",
     "a", "t", "i", "o", "n", ":", " ">>
  \o IntToChars(code) \o <<" ", "-", " ">> \o HtmlEscape(explain)
  \o <<".", "<", "/", "p", ">", "\n", " ", " ", " ", " ", "<", "/", "b", "o", "d", "y", ">",
     "\n", "<", "/", "h", "t", "m", "l", ">", "\n">>

\* send_error(code, message): the page is written unless the command is HEAD.
send_error(code, message, explain, command) ==
  LET body == ErrorPage(code, message, explain) IN
    Response(code,
             << <<"Connection", <<"c", "l", "o", "s", "e">>>>,
                <<"Content-Type", <<"t", "e", "x", "t", "/", "h", "t", "m", "l", ";", "c", "h", "a", "r", "s", "e", "t",
     "=", "u", "t", "f", "-", "8">>>>,
                <<"Content-Length", IntToChars(Len(body))>> >>,
             IF command # HEAD THEN body ELSE << >>)

Unsupported(command) ==
  send_error(NOT_IMPLEMENTED,
             <<"U", "n", "s", "u", "p", "p", "o", "r", "t", "e", "d", " ", "m", "e", "t", "h", "o",
     "d", " ", "(">> \o Repr(command) \o <<")">>,
             NotImplementedExplain, command)

-----------------------------------------------------------------------------
(* The requests clients send.  A request is its method, its raw path, the  *)
(* value of its Content-Length header (None when absent) and the body      *)
(* bytes the client holds, which need not number what it declared.         *)

Request(method, path, length, body) ==
  [method |-> method, path |-> path,
   headers |-> [h \in {"Content-Length"} |-> length], body |-> body]

NoRequest == Request(<< >>, << >>, None, << >>)

\* The coordinator prefix short of its final "/".
CoordinatorHead == SubSeq(CoordinatorPrefix, 1, Len(CoordinatorPrefix) - 1)

PathHeads ==
  {<< >>, StatusPath, DatasourcesPath, SqlPath,
   CoordinatorHead, <<"/", "d", "r", "u", "i", "d", "/", "c", "o", "o", "r", "d", "i", "n", "a", "t", "o",
     "r", "/", "v", "1", "/", "d", "a", "t", "a", "s", "o", "u", "r", "c", "e">>}

PathTokens == {<< >>, <<"a">>, SegmentsToken, <<"?", "\"">>}

Queries == {<< >>, <<"?", "x", "=", "1">>}

TokenSeqs(n) == UNION {[1..k -> PathTokens] : k \in 0..n}

PathOf(head, tokens, query) ==
  head
  \o (IF tokens = << >> THEN << >> ELSE <<Slash>> \o Join(tokens, <<Slash>>))
  \o query

Paths == {PathOf(h, t, q) : h \in PathHeads, t \in TokenSeqs(MaxTokens), q \in Queries}

ShortPaths == {PathOf(h, t, q) : h \in PathHeads, t \in {<< >>, << << >> >>}, q \in Queries}

Bodies == UNION {[1..k -> {"{", "}"}] : k \in 0..MaxBody}

ContentLengths ==
  {None, <<"a", "b", "c">>, <<"-", "1">>} \cup {IntToChars(n) : n \in 0..(MaxBody + 1)}

GetRequests == {Request(GET, p, None, << >>) : p \in Paths}

PostRequests ==
  {Request(POST, p, l, b) : p \in ShortPaths, l \in ContentLengths, b \in Bodies}

OtherRequests ==
  {Request(m, p, None, << >>) : m \in {DELETE, PUT, HEAD}, p \in ShortPaths}

Requests == GetRequests \cup PostRequests \cup OtherRequests

\* The requests of the concurrent specification.
ConcRequests ==
  {Request(GET, StatusPath, None, << >>),
   Request(GET, CoordinatorPrefix \o <<"a">>, None, << >>),
   Request(DELETE, StatusPath, None, << >>)}
  \cup {Request(POST, SqlPath, l, b) :
          l \in {None, <<"0">>, <<"1">>}, b \in {<< >>, <<"{">>}}

\* do_GET at each path a client requests.  The table is a constant, so the
\* model checker computes an entry the same way wherever the action that
\* reads it is evaluated.
GetResponse == [p \in Paths \cup {r.path : r \in ConcRequests} |-> do_GET(p)]

Conns == {1}

ConcConns == {1, 2}

-----------------------------------------------------------------------------
(* State.  conn[c] is one client connection: its request, the number of    *)
(* body bytes that reached the server, whether the client shut down its    *)
(* sending side, the responses written to it and the exception that ended  *)
(* its handler.  backlog is the listen queue, cur the connection the       *)
(* server loop is handling (0: none), pc where it stands, content_length   *)
(* the local of do_POST.                                                   *)

Closed ==
  [st |-> "closed", req |-> NoRequest, sent |-> 0, eof |-> FALSE,
   out |-> << >>, exc |-> ""]

Init ==
  /\ conn = [c \in Conns |-> Closed]
  /\ backlog = << >>
  /\ cur = 0
  /\ pc = "serve_forever"
  /\ content_length = 0

ConcInit ==
  /\ conn = [c \in ConcConns |-> Closed]
  /\ backlog = << >>
  /\ cur = 0
  /\ pc = "serve_forever"
  /\ content_length = 0

\* A client connects and sends its request line and headers.
ClientConnect(c, r) ==
  /\ conn[c].st = "closed"
  /\ conn' = [conn EXCEPT ![c] = [Closed EXCEPT !.st = "queued", !.req = r]]
  /\ backlog' = Append(backlog, c)
  /\ UNCHANGED <<cur, pc, content_length>>

\* A client sends the next byte of its body.
ClientSend(c) ==
  /\ conn[c].st \in {"queued", "handling"}
  /\ ~conn[c].eof
  /\ conn[c].sent < Len(conn[c].req.body)
  /\ conn' = [conn EXCEPT ![c].sent = @ + 1]
  /\ UNCHANGED <<backlog, cur, pc, content_length>>

\* A client shuts down its sending side, whatever it has sent so far.
ClientShutdown(c) ==
  /\ conn[c].st \in {"queued", "handling"}
  /\ ~conn[c].eof
  /\ conn' = [conn EXCEPT ![c].eof = TRUE]
  /\ UNCHANGED <<backlog, cur, pc, content_length>>

\* A client reads what the server wrote and closes.
ClientClose(c) ==
  /\ conn[c].st = "done"
  /\ conn' = [conn EXCEPT ![c] = Closed]
  /\ UNCHANGED <<backlog, cur, pc, content_length>>

\* serve_forever: accept the next connection and read its request.
Accept ==
  /\ cur = 0
  /\ backlog # << >>
  /\ cur' = Head(backlog)
  /\ backlog' = Tail(backlog)
  /\ conn' = [conn EXCEPT ![Head(backlog)].st = "handling"]
  /\ pc' = "handle_one_request"
  /\ UNCHANGED content_length

\* The handler is over, by return or by exception: the server closes the
\* connection and goes back to its loop.
Finish(responses, exc) ==
  /\ conn' = [conn EXCEPT ![cur].st = "done",
                          ![cur].out = @ \o responses,
                          ![cur].exc = exc]
  /\ cur' = 0
  /\ pc' = "serve_forever"
  /\ content_length' = 0
  /\ UNCHANGED backlog

\* handle_one_request: no do_<command> method.
HandleUnsupported ==
  /\ cur # 0 /\ pc = "handle_one_request"
  /\ ~HasHandler(conn[cur].req.method)
  /\ Finish(<<Unsupported(conn[cur].req.method)>>, "")

HandleGET ==
  /\ cur # 0 /\ pc = "handle_one_request"
  /\ conn[cur].req.method = GET
  /\ Finish(<<GetResponse[conn[cur].req.path]>>, "")

\* do_POST up to rfile.read.
HandlePOST ==
  /\ cur # 0 /\ pc = "handle_one_request"
  /\ conn[cur].req.method = POST
  /\ LET n == ParseInt(conn[cur].req.headers["Content-Length"]) IN
       IF ~RoutePOST(conn[cur].req.path) THEN Finish(<<NotFound>>, "")
       ELSE IF n.exc # "" THEN Finish(<< >>, n.exc)
       ELSE /\ pc' = "rfile.read"
            /\ content_length' = n.val
            /\ UNCHANGED <<conn, backlog, cur>>

\* do_POST from the return of rfile.read(content_length).
HandlePOSTRead ==
  /\ cur # 0 /\ pc = "rfile.read"
  /\ ReadReturns(content_length, conn[cur].sent, conn[cur].eof)
  /\ LET arrived == SubSeq(conn[cur].req.body, 1, conn[cur].sent)
         post_data == ReadBytes(content_length, arrived)
     IN Finish(<<JsonResponse(SqlResult(post_data))>>, "")

Server == Accept \/ HandleUnsupported \/ HandleGET \/ HandlePOST \/ HandlePOSTRead

Next ==
  \/ \E c \in DOMAIN conn, r \in Requests : ClientConnect(c, r)
  \/ \E c \in DOMAIN conn : ClientSend(c)
  \/ \E c \in DOMAIN conn : ClientShutdown(c)
  \/ \E c \in DOMAIN conn : ClientClose(c)
  \/ Server

Spec == Init /\ [][Next]_vars

ConcNext ==
  \/ \E c \in DOMAIN conn, r \in ConcRequests : ClientConnect(c, r)
  \/ \E c \in DOMAIN conn : ClientSend(c)
  \/ \E c \in DOMAIN conn : ClientShutdown(c)
  \/ \E c \in DOMAIN conn : ClientClose(c)
  \/ Server

\* The server loop runs whenever it can; no client is obliged to send.
ConcSpec == ConcInit /\ [][ConcNext]_vars /\ WF_vars(Server)

-----------------------------------------------------------------------------
(* What the claims speak of.                                               *)

\* The handler of connection c is over.
Handled(c) == conn[c].st = "done"

HandledAs(c, method) == Handled(c) /\ conn[c].req.method = method

JsonHeaders == << <<"Content-type", <<"a", "p", "p", "l", "i", "c", "a", "t", "i", "o", "n", "/", "j", "s", "o", "n">>>> >>

\* Exactly one response: 200, the JSON content type, these body bytes.
Got200(c, body) ==
  conn[c].out = <<[status |-> 200, headers |-> JsonHeaders, body |-> body]>>

\* Exactly one response: 404, no header, no body.
Got404(c) ==
  conn[c].out = <<[status |-> 404, headers |-> << >>, body |-> << >>]>>

StatusBytes == <<"{", "\"", "s", "t", "a", "t", "u", "s", "\"", ":", " ", "\"", "h", "e", "a", "l", "t",
     "h", "y", "\"", ",", " ", "\"", "v", "e", "r", "s", "i", "o", "n", "\"", ":", " ",
     "\"", "2", "8", ".", "0", ".", "1", "-", "m", "o", "c", "k", "\"", "}">>

DatasourcesBytes == <<"[", "\"", "w", "i", "k", "i", "p", "e", "d", "i", "a", "\"", ",", " ", "\"", "k", "o",
     "a", "l", "a", "s", "\"", ",", " ", "\"", "f", "l", "i", "g", "h", "t", "s", "\"", "]">>

SqlBytes == <<"[", "[", "\"", "t", "e", "s", "t", "\"", "]", ",", " ", "[", "1", "]", "]">>

\* The one-segment array whose dataSource is name.
SegmentsBytes(name) ==
  <<"[", "{", "\"", "d", "a", "t", "a", "S", "o", "u", "r", "c", "e", "\"", ":", " ">> \o Quote(name)
  \o <<",", " ", "\"", "i", "n", "t", "e", "r", "v", "a", "l", "\"", ":", " ", "\"", "2", "0",
     "2", "3", "-", "0", "1", "-", "0", "1", "T", "0", "0", ":", "0", "0", ":", "0", "0",
     ".", "0", "0", "0", "Z", "/", "2", "0", "2", "3", "-", "0", "1", "-", "0", "2", "T",
     "0", "0", ":", "0", "0", ":", "0", "0", ".", "0", "0", "0", "Z", "\"", ",", " ", "\"",
     "v", "e", "r", "s", "i", "o", "n", "\"", ":", " ", "\"", "2", "0", "2", "3", "-", "0",
     "1", "-", "0", "1", "T", "0", "0", ":", "0", "0", ":", "0", "0", ".", "0", "0", "0",
     "Z", "\"", ",", " ", "\"", "p", "a", "r", "t", "i", "t", "i", "o", "n", "\"", ":", " ",
     "0", ",", " ", "\"", "s", "i", "z", "e", "\"", ":", " ", "1", "0", "0", "0", "0", "0",
     "0", "}", "]">>

\* The metadata document whose name is name.
MetadataBytes(name) ==
  <<"{", "\"", "n", "a", "m", "e", "\"", ":", " ">> \o Quote(name)
  \o <<",", " ", "\"", "s", "e", "g", "m", "e", "n", "t", "s", "\"", ":", " ", "{", "\"", "i",
     "n", "t", "e", "r", "v", "a", "l", "s", "\"", ":", " ", "[", "\"", "2", "0", "2", "3",
     "-", "0", "1", "-", "0", "1", "T", "0", "0", ":", "0", "0", ":", "0", "0", ".", "0",
     "0", "0", "Z", "/", "2", "0", "2", "3", "-", "0", "1", "-", "0", "2", "T", "0", "0",
     ":", "0", "0", ":", "0", "0", ".", "0", "0", "0", "Z", "\"", "]", "}", ",", " ", "\"",
     "c", "o", "l", "u", "m", "n", "s", "\"", ":", " ", "[", "{", "\"", "n", "a", "m", "e",
     "\"", ":", " ", "\"", "t", "i", "m", "e", "s", "t", "a", "m", "p", "\"", ",", " ",
     "\"", "t", "y", "p", "e", "\"", ":", " ", "\"", "L", "O", "N", "G", "\"", "}", ",",
     " ", "{", "\"", "n", "a", "m", "e", "\"", ":", " ", "\"", "c", "o", "u", "n", "t",
     "\"", ",", " ", "\"", "t", "y", "p", "e", "\"", ":", " ", "\"", "L", "O", "N", "G",
     "\"", "}", ",", " ", "{", "\"", "n", "a", "m", "e", "\"", ":", " ", "\"", "d", "i",
     "m", "e", "n", "s", "i", "o", "n", "\"", ",", " ", "\"", "t", "y", "p", "e", "\"", ":",
     " ", "\"", "S", "T", "R", "I", "N", "G", "\"", "}", "]", ",", " ", "\"", "q", "u", "e",
     "r", "y", "G", "r", "a", "n", "u", "l", "a", "r", "i", "t", "y", "\"", ":", " ", "\"",
     "n", "o", "n", "e", "\"", ",", " ", "\"", "s", "e", "g", "m", "e", "n", "t", "G", "r",
     "a", "n", "u", "l", "a", "r", "i", "t", "y", "\"", ":", " ", "\"", "d", "a", "y", "\"",
     ",", " ", "\"", "r", "o", "l", "l", "u", "p", "\"", ":", " ", "f", "a", "l", "s", "e",
     "}">>

HasSlash(s) == \E i \in 1..Len(s) : s[i] = Slash

\* Datasource names holding no "/": the path tokens, bare or with a query.
Names == {t \o q : t \in PathTokens, q \in Queries}

-----------------------------------------------------------------------------
\* C1: a GET of exactly /status gets 200 with the status document, a GET of
\* exactly /druid/v2/datasources gets 200 with the three names in order, and
\* a GET of any other path that does not start with the coordinator prefix
\* gets 404 with no body.
C1_GetExactMatch ==
  \A c \in DOMAIN conn :
    HandledAs(c, GET) =>
      LET path == conn[c].req.path IN
        /\ path = StatusPath => Got200(c, StatusBytes)
        /\ path = DatasourcesPath => Got200(c, DatasourcesBytes)
        /\ (path # StatusPath /\ path # DatasourcesPath
            /\ ~StartsWith(path, CoordinatorPrefix)) => Got404(c)

\* GET /status?x=1 was answered 404.
C1_Witness ==
  \E c \in DOMAIN conn :
    /\ HandledAs(c, GET)
    /\ conn[c].req.path = StatusPath \o <<"?", "x", "=", "1">>
    /\ Got404(c)

\* C2: for every name without "/" (the empty name and the name segments
\* too), GET <prefix>{name}/segments gets 200 with the one-segment array
\* whose dataSource is name and whose other fields are the fixed ones.
C2_SegmentsEchoName ==
  \A c \in DOMAIN conn :
    HandledAs(c, GET) =>
      \A name \in PathTokens :
        (~HasSlash(name)
         /\ conn[c].req.path = CoordinatorPrefix \o name \o <<"/", "s", "e", "g", "m", "e", "n", "t", "s">>)
          => Got200(c, SegmentsBytes(name))

\* GET <prefix>segments/segments was answered with dataSource "segments".
C2_Witness ==
  \E c \in DOMAIN conn :
    /\ HandledAs(c, GET)
    /\ conn[c].req.path = CoordinatorPrefix \o SegmentsToken \o <<"/", "s", "e", "g", "m", "e", "n", "t", "s">>
    /\ Got200(c, SegmentsBytes(SegmentsToken))

\* C3: for every name other than segments without "/" (the empty name too),
\* GET <prefix>{name} gets 200 with the metadata document whose name is the
\* requested name and whose columns are timestamp, count, dimension.
C3_MetadataEchoName ==
  \A c \in DOMAIN conn :
    HandledAs(c, GET) =>
      \A name \in Names :
        (name # SegmentsToken /\ ~HasSlash(name)
         /\ conn[c].req.path = CoordinatorPrefix \o name)
          => Got200(c, MetadataBytes(name))

\* GET <prefix> with the empty name was answered with name "".
C3_Witness ==
  \E c \in DOMAIN conn :
    /\ HandledAs(c, GET)
    /\ conn[c].req.path = CoordinatorPrefix
    /\ Got200(c, MetadataBytes(<< >>))

\* C4: a POST to exactly /druid/v2/sql whose Content-Length is the length of
\* its body (a zero-length body too) gets 200 with the fixed SQL result,
\* whatever the body; a POST to any other path gets 404 with no body.
C4_PostRouting ==
  \A c \in DOMAIN conn :
    HandledAs(c, POST) =>
      LET req == conn[c].req IN
        /\ (req.path = SqlPath
            /\ req.headers["Content-Length"] = IntToChars(Len(req.body)))
             => Got200(c, SqlBytes)
        /\ req.path # SqlPath => Got404(c)

\* A POST to /druid/v2/sql with a two-byte body, declared and sent, was
\* answered.
C4_Witness ==
  \E c \in DOMAIN conn :
    /\ HandledAs(c, POST)
    /\ conn[c].req.path = SqlPath
    /\ conn[c].req.body = <<"{", "}">>
    /\ conn[c].req.headers["Content-Length"] = <<"2">>
    /\ conn[c].sent = 2
    /\ Got200(c, SqlBytes)

\* No route of the table matches the request.
Unmatched(req) ==
  /\ ~(req.method = GET
       /\ (req.path = StatusPath \/ req.path = DatasourcesPath
           \/ StartsWith(req.path, CoordinatorPrefix)))
  /\ ~(req.method = POST /\ req.path = SqlPath)

\* C5: every request no route matches, of whatever method, gets 404 with no
\* body.
C5_UnmatchedIs404 ==
  \A c \in DOMAIN conn :
    (Handled(c) /\ Unmatched(conn[c].req)) => Got404(c)

HasHeader(r, name) == \E i \in 1..Len(r.headers) : r.headers[i][1] = name

\* C6: every response written has status 200 or 404; it has status 200
\* exactly when it carries Content-type: application/json and a body; a 404
\* carries neither a body nor a content type.
C6_StatusHeaderBodyAgree ==
  \A c \in DOMAIN conn :
    \A i \in 1..Len(conn[c].out) :
      LET r == conn[c].out[i] IN
        /\ r.status \in {200, 404}
        /\ r.status = 200 <=> (r.headers = JsonHeaders /\ r.body # << >>)
        /\ r.status = 404 =>
             (r.body = << >> /\ ~HasHeader(r, "Content-type")
              /\ ~HasHeader(r, "Content-Type"))

\* C7: what the server answers to a request is fixed by the request's method
\* and path: two handled requests of the same method and path were answered
\* alike, whatever else they carried and whatever was handled in between.
C7_MethodAndPathDecide ==
  \A c, d \in DOMAIN conn :
    (Handled(c) /\ Handled(d)
     /\ conn[c].req.method = conn[d].req.method
     /\ conn[c].req.path = conn[d].req.path)
      => conn[c].out = conn[d].out

\* C8: when the handler of a request is over, exactly one response has been
\* written for it.
C8_ExactlyOneResponse ==
  \A c \in DOMAIN conn : Handled(c) => Len(conn[c].out) = 1

\* The token before the last of the path <prefix-head>/t1/.../tn{query}.
TokenBefore(tokens, i) ==
  IF i > 1 THEN tokens[i - 1] ELSE <<"d", "a", "t", "a", "s", "o", "u", "r", "c", "e", "s">>

\* C9 as claimed: a GET under the coordinator prefix gets 200; when segments
\* is among the tokens of its path the response is the segment array whose
\* dataSource is the token before segments, and otherwise the metadata
\* document whose name is the final token.
C9_SegmentsWhenPresent ==
  \A c \in DOMAIN conn :
    (HandledAs(c, GET) /\ StartsWith(conn[c].req.path, CoordinatorPrefix)) =>
      \A toks \in TokenSeqs(MaxTokens) \ {<< >>} : \A q \in Queries :
        conn[c].req.path = PathOf(CoordinatorHead, toks, q) =>
          LET n == Len(toks)
              final == [toks EXCEPT ![n] = @ \o q]
          IN IF \E i \in 1..n : final[i] = SegmentsToken
               THEN \E i \in 1..n :
                      /\ final[i] = SegmentsToken
                      /\ Got200(c, SegmentsBytes(TokenBefore(final, i)))
               ELSE Got200(c, MetadataBytes(final[n]))

\* C9 amended: a GET under the coordinator prefix gets 200; when the final
\* token of its path is segments the response is the segment array whose
\* dataSource is the token before it, and otherwise (segments among the
\* earlier tokens or not) the metadata document whose name is the final
\* token.
C9_SegmentsWhenFinal ==
  \A c \in DOMAIN conn :
    (HandledAs(c, GET) /\ StartsWith(conn[c].req.path, CoordinatorPrefix)) =>
      \A toks \in TokenSeqs(MaxTokens) \ {<< >>} : \A q \in Queries :
        conn[c].req.path = PathOf(CoordinatorHead, toks, q) =>
          LET n == Len(toks)
              final == [toks EXCEPT ![n] = @ \o q]
          IN IF final[n] = SegmentsToken
               THEN Got200(c, SegmentsBytes(TokenBefore(final, n)))
               ELSE Got200(c, MetadataBytes(final[n]))

\* GET <prefix>a/segments/a was answered with the metadata of "a".
C9_Witness ==
  \E c \in DOMAIN conn :
    /\ HandledAs(c, GET)
    /\ conn[c].req.path = CoordinatorPrefix \o <<"a", "/", "s", "e", "g", "m", "e", "n", "t", "s", "/", "a">>
    /\ Got200(c, MetadataBytes(<<"a">>))

\* C10: every GET request that reached the server is eventually answered,
\* whatever the clients of the other connections do.
C10_EveryGetAnswered ==
  \A c \in ConcConns :
    (conn[c].st = "queued" /\ conn[c].req.method = GET)
      ~> (Len(conn[c].out) = 1)

=============================================================================
